---- MODULE Spec2Model ----
(***************************************************************************)
(* A model of wrds_tools.WrdsConnection (src/wrds_tools/wrds_connection.py) *)
(* The connection object holds an observation window, a dataset and two    *)
(* lazily fetched lookup tables; build_sp500 resolves index membership      *)
(* from the COMPA.IDXCST_HIS table of the data source.                      *)
(*                                                                         *)
(* Conventions.  A Python value that may be None (or a pandas NaT) is a     *)
(* set with at most one element: {} is None/NaT, {v} is the value v.        *)
(* A DataFrame is [columns, data]: the set of its column names and the      *)
(* sequence of its rows, each row [index, row]: its pandas index label and  *)
(* a function from column names to cell values.  Cells are kept only for    *)
(* the columns that come from IDXCST_HIS; columns merged in from the NAMES  *)
(* and COMPANY tables are kept by name only.                                *)
(***************************************************************************)
EXTENDS Integers, Sequences, FiniteSets, TLC

VARIABLES
    idxcst_his,       \* the data source's COMPA.IDXCST_HIS table
    start_date,       \* self.start_date
    end_date,         \* self.end_date
    dataset,          \* self.dataset
    names_table,      \* self._names_table
    company_table,    \* self._company_table
    get_table_calls,  \* how often db.get_table was asked for each lookup table
    called,           \* the last method called on the connection, with its arguments
    raised,           \* the exception that call raised ("" when it returned)
    returned,         \* the DataFrame that call returned (None otherwise)
    ncalls            \* the number of method calls so far

vars == <<idxcst_his, start_date, end_date, dataset, names_table,
          company_table, get_table_calls, called, raised, returned, ncalls>>

(* ------------------------------ bounds -------------------------------- *)

\* Rows of IDXCST_HIS in the membership-resolution specification.
MaxLen == 2
\* Dates are 1..MaxDate.
MaxDate == 2
\* Method calls on one connection in the connection specification.
MaxCalls == 3

Dates == 1..MaxDate
OptDates == {{}} \cup {{d} : d \in Dates}
Gvkeys == {"A", "B"}

\* "000003" is the Global Index Key of the S&P 500.
SP500 == "000003"
OtherIndex == "000001"

(* ----------------------------- DataFrame ------------------------------ *)

None == {}
Some(x) == {x}

\* The positions where a boolean mask (a sequence of booleans) holds, in order.
KeptPositions(mask) ==
    LET idx == {i \in 1..Len(mask) : mask[i]}
    IN  [k \in 1..Cardinality(idx) |->
            CHOOSE i \in idx : Cardinality({j \in idx : j <= i}) = k]

\* df[mask]: the rows at the positions where the mask holds, index labels kept.
BooleanIndex(df, mask) ==
    LET pos == KeptPositions(mask)
    IN  [df EXCEPT !.data = [k \in 1..Len(pos) |-> df.data[pos[k]]]]

\* A comparison of a cell with a scalar is False where the cell is missing.
CellGE(cell, scalar) == \E c \in cell : c >= scalar
\* (variant: a missing cell sorts before every scalar)
CellLEMissingFirst(cell, scalar) == cell = {} \/ \E c \in cell : c <= scalar
CellLE(cell, scalar) == \E c \in cell : c <= scalar

\* (variant: keep='first', an earlier row has the same value of subset)
DuplicatedFirst(df, subset, i) ==
    \E j \in 1..(i-1) : df.data[j].row[subset] = df.data[i].row[subset]
\* (variant: only the first row of a repeated value counts as a duplicate)
DuplicatedOnlyFirstOccurrence(df, subset, i) ==
    /\ \E j \in (i+1)..Len(df.data) : df.data[j].row[subset] = df.data[i].row[subset]
    /\ ~ \E j \in 1..(i-1) : df.data[j].row[subset] = df.data[i].row[subset]
\* Series.duplicated(keep='last'): a later row has the same value of subset.
DuplicatedLast(df, subset, i) ==
    \E j \in (i+1)..Len(df.data) : df.data[j].row[subset] = df.data[i].row[subset]

\* (variant: keep=False, every row of a repeated value is dropped)
DropDuplicatesNone(df, subset) ==
    BooleanIndex(df, [i \in 1..Len(df.data) |->
                        ~DuplicatedLast(df, subset, i) /\ ~DuplicatedFirst(df, subset, i)])
\* df.drop_duplicates(subset=subset, keep='last')
DropDuplicatesLast(df, subset) ==
    BooleanIndex(df, [i \in 1..Len(df.data) |-> ~DuplicatedLast(df, subset, i)])

\* df[[c1, ...]]
SelectColumns(df, cols) ==
    [columns |-> cols,
     data |-> [k \in 1..Len(df.data) |->
                 [index |-> df.data[k].index,
                  row |-> [c \in cols |-> df.data[k].row[c]]]]]

\* df.rename(columns=mapping): mapping is a function from old names to new ones.
Renamed(mapping, c) == IF c \in DOMAIN mapping THEN mapping[c] ELSE c
Rename(df, mapping) ==
    [columns |-> {Renamed(mapping, c) : c \in df.columns},
     data |-> [k \in 1..Len(df.data) |->
                 LET old == df.data[k].row
                 IN  [index |-> df.data[k].index,
                      row |-> [n \in {Renamed(mapping, c) : c \in DOMAIN old} |->
                                 old[CHOOSE c \in DOMAIN old : Renamed(mapping, c) = n]]]]]

\* df.merge(table[['gvkey'] + new], on='gvkey', how='left'), the lookup table
\* holding one row for each gvkey: the rows of df in their order under a new
\* RangeIndex, the columns of `new` added, and a column that both sides hold
\* split into <name>_x and <name>_y.
Merge(df, new) ==
    LET overlap == new \cap df.columns
    IN  [columns |-> (df.columns \ overlap) \cup (new \ overlap)
                       \cup {c \o "_x" : c \in overlap}
                       \cup {c \o "_y" : c \in overlap},
         data |-> [k \in 1..Len(df.data) |->
                     [index |-> k - 1, row |-> df.data[k].row]]]

\* df.reset_index(drop=True)
ResetIndex(df) ==
    [df EXCEPT !.data = [k \in 1..Len(df.data) |->
                           [index |-> k - 1, row |-> df.data[k].row]]]

\* df.head(): the first five rows.
HeadRows == 5
DataFrameHead(df) ==
    [df EXCEPT !.data = SubSeq(df.data, 1,
                               IF Len(df.data) < HeadRows THEN Len(df.data) ELSE HeadRows)]

\* db.get_table(library='compa', table='idxcst_his') as a DataFrame: a
\* RangeIndex 0..n-1 over the rows of the table.
IdxcstColumns == {"gvkeyx", "gvkey", "from", "thru"}
GetIdxcstHis(table) ==
    [columns |-> IdxcstColumns,
     data |-> [k \in 1..Len(table) |-> [index |-> k - 1, row |-> table[k]]]]

(* ------------------------ membership resolution ----------------------- *)

\* (variants: the strict comparisons)
AfterStrict(df, end, i) == \E c \in df.data[i].row["from"] : c > end
BeforeStrict(df, start, i) == \E c \in df.data[i].row["thru"] : c < start
\* after = dataset_raw['from'] >= self.end_date
After(df, end, i) == CellGE(df.data[i].row["from"], end)
\* before = dataset_raw['thru'] <= self.start_date
Before(df, start, i) == CellLE(df.data[i].row["thru"], start)

\* (variant: without a window the rows with a missing `thru` are dropped)
FilterWindowDropNa(df, start, end) ==
    IF start # None /\ end # None
    THEN LET s == CHOOSE x \in start : TRUE
             e == CHOOSE x \in end : TRUE
         IN  BooleanIndex(df, [i \in 1..Len(df.data) |->
                                  ~Before(df, s, i) /\ ~After(df, e, i)])
    ELSE IF start # None
    THEN LET s == CHOOSE x \in start : TRUE
         IN  BooleanIndex(df, [i \in 1..Len(df.data) |-> ~Before(df, s, i)])
    ELSE IF end # None
    THEN LET e == CHOOSE x \in end : TRUE
         IN  BooleanIndex(df, [i \in 1..Len(df.data) |-> ~After(df, e, i)])
    ELSE BooleanIndex(df, [i \in 1..Len(df.data) |-> df.data[i].row["thru"] # {}])

\* Lines 89-103: the rows of dataset_raw inside the window (start, end).
FilterWindow(df, start, end) ==
    IF start # None /\ end # None
    THEN LET s == CHOOSE x \in start : TRUE
             e == CHOOSE x \in end : TRUE
         IN  BooleanIndex(df, [i \in 1..Len(df.data) |->
                                  ~Before(df, s, i) /\ ~After(df, e, i)])
    ELSE IF start # None
    THEN LET s == CHOOSE x \in start : TRUE
         IN  BooleanIndex(df, [i \in 1..Len(df.data) |-> ~Before(df, s, i)])
    ELSE IF end # None
    THEN LET e == CHOOSE x \in end : TRUE
         IN  BooleanIndex(df, [i \in 1..Len(df.data) |-> ~After(df, e, i)])
    ELSE df

\* Lines 89-107: the window filter, then the deduplication by gvkey.
Resolve(df, start, end) ==
    DropDuplicatesLast(FilterWindow(df, start, end), "gvkey")

\* Lines 84-87: the rows of the S&P 500 among all indexes.
DatasetRaw(table) ==
    LET all == GetIdxcstHis(table)
    IN  BooleanIndex(all, [i \in 1..Len(all.data) |->
                                all.data[i].row["gvkeyx"] = SP500])

BuildSp500Result(table, start, end, rename_columns, drop_uninformative) ==
    LET resolved == Resolve(DatasetRaw(table), start, end)
    IN  IF drop_uninformative THEN SelectColumns(resolved, {"gvkey"})
        ELSE IF rename_columns
        THEN Rename(resolved, [c \in {"from", "thru"} |->
                    IF c = "from" THEN "joined_sp500" ELSE "left_sp500"])
        ELSE resolved

(* ------------------------------- state -------------------------------- *)

NoCall == [op |-> "__init__", start_date |-> None, end_date |-> None,
           get_GICS |-> FALSE, get_SP |-> FALSE,
           classification_system |-> "", industry_code |-> "",
           dataframe |-> FALSE]
Call(op) == [NoCall EXCEPT !.op = op]

\* A row of IDXCST_HIS: joined on `from`, left on `thru` (missing while the
\* company is still in the index), from <= thru when both are recorded; a row
\* with no `from` has no `thru` either.
Sp500Rows ==
    {r \in [gvkeyx : {SP500}, gvkey : Gvkeys, from : OptDates, thru : OptDates] :
        /\ \A f \in r.from : \A t \in r.thru : f <= t
        /\ r.from = {} => r.thru = {}}
OtherRows ==
    [gvkeyx : {OtherIndex}, gvkey : {"A"}, from : {{1}}, thru : {{}}]
Rows == Sp500Rows \cup OtherRows

Tables(n) == UNION {[1..k -> Rows] : k \in 0..n}

\* Companies that left and joined again: MaxLen + 1 spells of the S&P 500
\* that all began on the first date.
RejoinRows == {r \in Sp500Rows : r.from = {1}}
RejoinTables == [1..(MaxLen + 1) -> RejoinRows]

\* __init__(wrds_username, start_date, end_date)
InitConnection(start, end) ==
    /\ start_date = start
    /\ end_date = end
    /\ dataset = None
    /\ names_table = None
    /\ company_table = None
    /\ get_table_calls = [t \in {"names", "company"} |-> 0]
    /\ called = NoCall
    /\ raised = ""
    /\ returned = None
    /\ ncalls = 0

\* The snapshots of IDXCST_HIS the connection specification runs against: a
\* company that has left the S&P 500, one that is still in it and a
\* constituent of another index, and the shorter tables that begin alike.
Snapshot ==
    << [gvkeyx |-> SP500, gvkey |-> "A", from |-> {1}, thru |-> {MaxDate}],
       [gvkeyx |-> SP500, gvkey |-> "B", from |-> {1}, thru |-> {}],
       [gvkeyx |-> OtherIndex, gvkey |-> "A", from |-> {1}, thru |-> {}] >>
Snapshots == {SubSeq(Snapshot, 1, k) : k \in 0..Len(Snapshot)}

\* A connection constructed without a window against one of the snapshots;
\* set_observation_period gives it any window.
Init ==
    /\ idxcst_his \in Snapshots
    /\ InitConnection(None, None)

\* A connection constructed with any window against any table.
InitResolve ==
    /\ idxcst_his \in Tables(MaxLen) \cup RejoinTables
    /\ \E start \in OptDates, end \in OptDates : InitConnection(start, end)

(* ------------------------------ actions ------------------------------- *)

\* The model follows a connection for MaxCalls method calls.
CanCall == ncalls < MaxCalls

\* What every call leaves behind: the call, its exception, its return value.
Outcome(call, exception, value) ==
    /\ called' = call
    /\ raised' = exception
    /\ returned' = value
    /\ ncalls' = ncalls + 1

\* (variant: a new window drops the dataset held)
set_observation_period_clearing ==
    \E s \in OptDates, e \in OptDates :
        /\ CanCall
        /\ start_date' = s
        /\ end_date' = e
        /\ dataset' = None
        /\ Outcome([Call("set_observation_period") EXCEPT
                        !.start_date = s, !.end_date = e], "", None)
        /\ UNCHANGED <<idxcst_his, names_table, company_table,
                       get_table_calls>>

set_observation_period ==
    \E s \in OptDates, e \in OptDates :
        /\ CanCall
        /\ start_date' = s
        /\ end_date' = e
        /\ Outcome([Call("set_observation_period") EXCEPT
                        !.start_date = s, !.end_date = e], "", None)
        /\ UNCHANGED <<idxcst_his, dataset, names_table, company_table,
                       get_table_calls>>

build_sp500 ==
    \E rename_columns \in BOOLEAN, drop_uninformative \in BOOLEAN :
        /\ CanCall
        /\ dataset' = Some(BuildSp500Result(idxcst_his, start_date, end_date,
                                            rename_columns, drop_uninformative))
        /\ Outcome(Call("build_sp500"), "", None)
        /\ UNCHANGED <<idxcst_his, start_date, end_date, names_table,
                       company_table, get_table_calls>>

\* The lookup tables the connection holds and the requests made for them.
Cache == [names_table |-> names_table, company_table |-> company_table,
          get_table_calls |-> get_table_calls]
SetCache(c) ==
    /\ names_table' = c.names_table
    /\ company_table' = c.company_table
    /\ get_table_calls' = c.get_table_calls

\* db.get_table(library='compa', table=t), counted; the cells of the lookup
\* tables are not modelled.
GetTable(c, t) == [c.get_table_calls EXCEPT ![t] = @ + 1]

\* (variant: the names table is fetched on every use)
download_names_table_uncached(c) ==
    [c EXCEPT !.names_table = Some("names"),
              !.get_table_calls = GetTable(c, "names")]

download_names_table(c) ==
    IF c.names_table = None
    THEN [c EXCEPT !.names_table = Some("names"),
                   !.get_table_calls = GetTable(c, "names")]
    ELSE c

download_company_table(c) ==
    IF c.company_table = None
    THEN [c EXCEPT !.company_table = Some("company"),
                   !.get_table_calls = GetTable(c, "company")]
    ELSE c

head ==
    /\ CanCall
    /\ IF dataset = None
       THEN Outcome(Call("head"), "NoDatasetError", None)
       ELSE Outcome(Call("head"), "",
                    Some(DataFrameHead(CHOOSE df \in dataset : TRUE)))
    /\ UNCHANGED <<idxcst_his, start_date, end_date, dataset, names_table,
                   company_table, get_table_calls>>

\* The body shared by add_ticker, add_cusip, add_cik, add_exit_year,
\* add_ipo_date and add_names() without a dataframe: fetch the names table,
\* merge one of its columns into the dataset, rename it.
AddFromNames(call, column, mapping) ==
    /\ CanCall
    /\ SetCache(download_names_table(Cache))
    /\ IF dataset = None
       THEN \* None has no attribute 'merge'
            /\ Outcome(call, "AttributeError", None)
            /\ UNCHANGED dataset
       ELSE /\ dataset' = Some(Rename(Merge(CHOOSE df \in dataset : TRUE, {column}),
                                      mapping))
            /\ Outcome(call, "", None)
    /\ UNCHANGED <<idxcst_his, start_date, end_date>>

NoRename == [c \in {} |-> c]

\* A caller's dataframe with a gvkey column.
CallerDataframe ==
    [columns |-> {"gvkey"},
     data |-> <<[index |-> 0, row |-> [gvkey |-> "A"]]>>]

add_names ==
    \/ AddFromNames(Call("add_names"), "conm", [c \in {"conm"} |-> "name"])
    \/ /\ CanCall
       /\ SetCache(download_names_table(Cache))
       /\ Outcome([Call("add_names") EXCEPT !.dataframe = TRUE], "",
                  Some(Merge(CallerDataframe, {"conm"})))
       /\ UNCHANGED <<idxcst_his, start_date, end_date, dataset>>

add_ticker == AddFromNames(Call("add_ticker"), "tic", [c \in {"tic"} |-> "ticker"])

add_cusip == AddFromNames(Call("add_cusip"), "cusip", NoRename)

add_cik == AddFromNames(Call("add_cik"), "CIK", NoRename)

add_exit_year ==
    AddFromNames(Call("add_exit_year"), "year2", [c \in {"year2"} |-> "exit_year"])

add_ipo_date ==
    AddFromNames(Call("add_ipo_date"), "ipodate", [c \in {"ipodate"} |-> "ipo_date"])

\* Lines 195-227 of add_industry_classifiers, on a connection that holds the
\* dataset df: the cache and the dataset it leaves.
GICSColumns == [c \in {"ggroup", "gind", "gsector", "gsubind"} |->
                  IF c = "ggroup" THEN "GICS_group"
                  ELSE IF c = "gind" THEN "GICS_industry"
                  ELSE IF c = "gsector" THEN "GICS_sector" ELSE "GICS_subindustry"]
SPColumns == [c \in {"spcindcd", "spcseccd"} |->
                IF c = "spcindcd" THEN "SP_industry" ELSE "SP_sector"]
SICColumns == [c \in {"sic", "naics"} |-> IF c = "sic" THEN "SIC" ELSE "NAICS"]

ClassifiersAdded(c, df, get_GICS, get_SP) ==
    LET c1 == download_names_table(c)
        c2 == IF get_GICS \/ get_SP THEN download_company_table(c1) ELSE c1
        d1 == IF "SIC" \notin df.columns
              THEN Rename(Merge(df, DOMAIN SICColumns), SICColumns) ELSE df
        d2 == IF get_GICS /\ "GICS_group" \notin d1.columns
              THEN Rename(Merge(d1, DOMAIN GICSColumns), GICSColumns) ELSE d1
        d3 == IF get_SP /\ "SP_industry" \notin d2.columns
              THEN Rename(Merge(d2, DOMAIN SPColumns), SPColumns) ELSE d2
    IN  [cache |-> c2, dataset |-> d3]

add_industry_classifiers ==
    \E get_GICS \in BOOLEAN, get_SP \in BOOLEAN :
        LET call == [Call("add_industry_classifiers") EXCEPT
                        !.get_GICS = get_GICS, !.get_SP = get_SP]
        IN  /\ CanCall
            /\ IF dataset = None
               THEN /\ Outcome(call, "NoDatasetError", None)
                    /\ UNCHANGED <<dataset, names_table, company_table,
                                   get_table_calls>>
               ELSE LET r == ClassifiersAdded(Cache, CHOOSE df \in dataset : TRUE,
                                              get_GICS, get_SP)
                    IN  /\ SetCache(r.cache)
                        /\ dataset' = Some(r.dataset)
                        /\ Outcome(call, "", None)
            /\ UNCHANGED <<idxcst_his, start_date, end_date>>

\* add_address fetches the company table and then fails: Series.str.cat is
\* called on the class, without a Series.
add_address ==
    /\ CanCall
    /\ SetCache(download_company_table(Cache))
    /\ Outcome(Call("add_address"), "TypeError", None)
    /\ UNCHANGED <<idxcst_his, start_date, end_date, dataset>>

return_dataframe ==
    /\ CanCall
    /\ Outcome(Call("return_dataframe"), "", dataset)
    /\ UNCHANGED <<idxcst_his, start_date, end_date, dataset, names_table,
                   company_table, get_table_calls>>

SICSystems == {"SIC", "NAICS"}
GICSSystems == {"GICS_group", "GICS_industry", "GICS_sector", "GICS_subindustry"}
SPSystems == {"SP_industry", "SP_sector"}

\* The classification systems and the kinds of industry code a caller passes.
CallerSystems == {"SIC", "GICS_sector", "SP_sector", "ISIC"}
CallerCodes == {"str", "list", "int"}

\* Lines 277-286 of filter_by_industry: the classifiers it downloads first.
ClassifiersEnsured(c, df, system) ==
    LET r1 == IF system \in SICSystems /\ "SIC" \notin df.columns
              THEN ClassifiersAdded(c, df, FALSE, FALSE)
              ELSE [cache |-> c, dataset |-> df]
        r2 == IF system \in GICSSystems /\ "GICS_group" \notin r1.dataset.columns
              THEN ClassifiersAdded(r1.cache, r1.dataset, TRUE, FALSE) ELSE r1
        r3 == IF system \in SPSystems /\ "SP_industry" \notin r2.dataset.columns
              THEN ClassifiersAdded(r2.cache, r2.dataset, FALSE, TRUE) ELSE r2
    IN  r3

\* The rows whose classification matches the code are the data source's to
\* decide: any of the rows may match.
filter_by_industry ==
    \E system \in CallerSystems, code \in CallerCodes :
        LET call == [Call("filter_by_industry") EXCEPT
                        !.classification_system = system, !.industry_code = code]
        IN  /\ CanCall
            /\ IF dataset = None
               THEN /\ Outcome(call, "NoDatasetError", None)
                    /\ UNCHANGED <<dataset, names_table, company_table,
                                   get_table_calls>>
               ELSE LET r == ClassifiersEnsured(Cache, CHOOSE df \in dataset : TRUE,
                                                system)
                    IN  /\ SetCache(r.cache)
                        /\ IF code = "int"
                           THEN /\ dataset' = Some(ResetIndex(r.dataset))
                                /\ Outcome(call, "", None)
                           ELSE IF system \notin r.dataset.columns
                           THEN /\ dataset' = Some(r.dataset)
                                /\ Outcome(call, "KeyError", None)
                           ELSE \E match \in SUBSET (1..Len(r.dataset.data)) :
                                  /\ dataset' = Some(ResetIndex(
                                        BooleanIndex(r.dataset,
                                            [i \in 1..Len(r.dataset.data) |->
                                                i \in match])))
                                  /\ Outcome(call, "", None)
            /\ UNCHANGED <<idxcst_his, start_date, end_date>>

Next ==
    \/ set_observation_period
    \/ build_sp500
    \/ head
    \/ add_names
    \/ add_ticker
    \/ add_cusip
    \/ add_cik
    \/ add_exit_year
    \/ add_ipo_date
    \/ add_industry_classifiers
    \/ add_address
    \/ return_dataframe
    \/ filter_by_industry

Spec == Init /\ [][Next]_vars

\* The resolution of a freshly constructed connection.
NextResolve == dataset = None /\ build_sp500

SpecResolve == InitResolve /\ [][NextResolve]_vars

(* ------------------------------ claims -------------------------------- *)

\* The membership events: the rows of the S&P 500 in IDXCST_HIS, by position.
Events == {i \in 1..Len(idxcst_his) : idxcst_his[i].gvkeyx = SP500}
\* Rule 1: the event ended before the window.
EndedBefore(i) == \E s \in start_date : \E t \in idxcst_his[i].thru : t <= s
\* Rule 2: the event began after the window.
BeganAfter(i) == \E e \in end_date : \E f \in idxcst_his[i].from : f >= e
Qualifies(i) == i \in Events /\ ~EndedBefore(i) /\ ~BeganAfter(i)
SameEntity(i, j) == idxcst_his[i].gvkey = idxcst_his[j].gvkey

\* build_sp500 has just returned its result.
Built == called.op = "build_sp500" /\ raised = "" /\ dataset # None
Result == CHOOSE df \in dataset : TRUE
\* Event i is a row of the result: rows keep the index label of their event.
InResult(i) == \E k \in 1..Len(Result.data) : Result.data[k].index = i - 1
ResultRowsOf(g) == {k \in 1..Len(Result.data) : Result.data[k].row["gvkey"] = g}

C3_OneRowPerMember ==
    (called.op = "build_sp500") =>
        /\ raised = "" /\ dataset # None
        /\ \A g \in Gvkeys :
              Cardinality(ResultRowsOf(g)) =
                 IF \E i \in Events : idxcst_his[i].gvkey = g /\ Qualifies(i)
                 THEN 1 ELSE 0
        /\ \A k \in 1..Len(Result.data) : Result.data[k].row["gvkey"] \in Gvkeys

\* C3 witness: one entity has two qualifying events and a single row, another
\* entity has events, all excluded, and no row.
C3_Witness ==
    /\ Built
    /\ \E i, j \in Events : i < j /\ SameEntity(i, j) /\ Qualifies(i) /\ Qualifies(j)
    /\ \E i \in Events :
          /\ \A j \in Events : SameEntity(i, j) => ~Qualifies(j)
          /\ ResultRowsOf(idxcst_his[i].gvkey) = {}
    /\ Len(Result.data) = 1

\* The events of entity g, and those of them in the result.
EventsOf(g) == {i \in Events : idxcst_his[i].gvkey = g}
Survivors(g) == {i \in EventsOf(g) : InResult(i)}
Last(S) == CHOOSE i \in S : \A j \in S : j <= i

\* C4 as stated: of two or more events of one entity exactly one is in the
\* result, the last in input order.
C4_LastInputEventSurvives ==
    Built =>
        \A g \in Gvkeys :
            Cardinality(EventsOf(g)) >= 2 => Survivors(g) = {Last(EventsOf(g))}

\* C4 amended: of two or more events of one entity that neither rule excludes
\* exactly one event of the entity is in the result, the last of those in
\* input order.
C4_LastQualifyingEventSurvives ==
    Built =>
        \A g \in Gvkeys :
            LET Q == {i \in EventsOf(g) : Qualifies(i)}
            IN  Cardinality(Q) >= 2 => Survivors(g) = {Last(Q)}

\* C4 witness: an entity with two qualifying events and a later excluded one;
\* the second qualifying event is the one in the result.
C4_Witness ==
    /\ Built
    /\ \E i, j, k \in Events :
          /\ i < j /\ j < k /\ SameEntity(i, j) /\ SameEntity(j, k)
          /\ Qualifies(i) /\ Qualifies(j) /\ ~Qualifies(k)
          /\ InResult(j) /\ ~InResult(i) /\ ~InResult(k)

\* The rows of the S&P 500 in input order, as rows of a DataFrame.
Sp500Events ==
    SelectSeq([k \in 1..Len(idxcst_his) |-> [index |-> k - 1, row |-> idxcst_his[k]]],
              LAMBDA r : r.row.gvkeyx = SP500)

\* C5: without start_date and end_date the window filter of build_sp500 hands
\* every row of the S&P 500 to the deduplication, in input order; an event is
\* then missing from the result only if a later event has the same entity.
C5_NoWindowUnfiltered ==
    (Built /\ start_date = None /\ end_date = None) =>
        /\ FilterWindow(DatasetRaw(idxcst_his), start_date, end_date).data = Sp500Events
        /\ \A i \in Events :
              InResult(i) <=> ~ \E j \in Events : j > i /\ SameEntity(i, j)

\* C5 witness: no window; the table holds a row of another index and, after
\* it, an event with neither date recorded, which is in the result.
C5_Witness ==
    /\ Built /\ start_date = None /\ end_date = None
    /\ \E i \in 1..Len(idxcst_his) : i \notin Events
    /\ \E i \in Events :
          /\ i > 1 /\ idxcst_his[i].thru = {} /\ idxcst_his[i].from = {}
          /\ InResult(i)

\* C7: resolving the result of build_sp500 again under the same window gives
\* the same rows (the result keeping the columns of IDXCST_HIS).
C7_Idempotent ==
    (Built /\ Result.columns = IdxcstColumns) =>
        Resolve(Result, start_date, end_date) = Result

\* C7 witness: three events of one entity, all inside a window bounded on both
\* sides, resolved to one row.
C7_Witness ==
    /\ Built /\ Result.columns = IdxcstColumns
    /\ start_date # None /\ end_date # None
    /\ \E i, j, k \in Events :
          /\ i < j /\ j < k /\ SameEntity(i, j) /\ SameEntity(j, k)
          /\ Qualifies(i) /\ Qualifies(j) /\ Qualifies(k)
    /\ Len(Result.data) = 1

\* An open-ended event that joined before end_date, or with no end_date.
OpenEnded(i) ==
    /\ i \in Events
    /\ idxcst_his[i].thru = {}
    /\ \/ end_date = None
       \/ \E e \in end_date : \E f \in idxcst_his[i].from : f < e

\* C8: an event with no left date that joined before end_date (or with no
\* end_date) passes the window filter whatever start_date is, and its entity
\* has a row in the result.
C8_OpenEndedKept ==
    Built =>
        LET filtered == FilterWindow(DatasetRaw(idxcst_his), start_date, end_date).data
        IN  \A i \in Events :
                OpenEnded(i) =>
                    /\ \E m \in 1..Len(filtered) :
                          filtered[m] = [index |-> i - 1, row |-> idxcst_his[i]]
                    /\ ResultRowsOf(idxcst_his[i].gvkey) # {}

\* C8 witness: a window bounded on both sides, an open-ended event that joined
\* before end_date and is in the result, and an event the window excludes.
C8_Witness ==
    /\ Built /\ start_date # None /\ end_date # None
    /\ \E i \in Events : OpenEnded(i) /\ InResult(i)
    /\ \E i \in Events : EndedBefore(i)

\* The operations that work on the dataset.
DependentOps ==
    {"head", "add_names", "add_ticker", "add_cusip", "add_cik", "add_exit_year",
     "add_ipo_date", "add_industry_classifiers", "filter_by_industry",
     "return_dataframe"}

\* C6: a dependent operation called while the connection holds no dataset
\* raises NoDatasetError.
C6_NoDatasetSignalled ==
    (dataset = None /\ called.op \in DependentOps) => raised = "NoDatasetError"

\* A step that asks the data source for the company table.
CompanyFetched == get_table_calls'["company"] # get_table_calls["company"]
NamesFetched == get_table_calls'["names"] # get_table_calls["names"]

\* C9: the data source is asked for the names table at most once and for the
\* company table at most once; a table once held is neither fetched again nor
\* replaced; the company table is fetched only in add_address and in
\* add_industry_classifiers with get_GICS or get_SP (called directly or from
\* filter_by_industry for a GICS or S&P classification system).
C9_FetchOnceStep ==
    /\ get_table_calls'["names"] <= 1
    /\ get_table_calls'["company"] <= 1
    /\ names_table # None => names_table' = names_table /\ ~NamesFetched
    /\ company_table # None => company_table' = company_table /\ ~CompanyFetched
    /\ NamesFetched => names_table' # None
    /\ CompanyFetched =>
          /\ company_table' # None
          /\ \/ called'.op = "add_address"
             \/ /\ called'.op = "add_industry_classifiers"
                /\ called'.get_GICS \/ called'.get_SP
             \/ /\ called'.op = "filter_by_industry"
                /\ called'.classification_system \in GICSSystems \cup SPSystems
C9_FetchOnce == [][C9_FetchOnceStep]_vars

\* C9 witness: a third call that used the names table, after which the data
\* source has been asked for each table once.
C9_Witness ==
    /\ ncalls = 3
    /\ called.op = "add_cusip" /\ raised = ""
    /\ {"GICS_group", "cusip"} \subseteq Result.columns
    /\ get_table_calls["names"] = 1 /\ get_table_calls["company"] = 1

\* The entities of a DataFrame.
GvkeysOf(df) == {df.data[k].row["gvkey"] : k \in 1..Len(df.data)}

\* C10: set_observation_period sets start_date and end_date to its arguments
\* (None for one not passed) and leaves dataset, _names_table and
\* _company_table as they are; the dataset held is one of the window in force
\* at the last build_sp500: build_sp500 resolves under the window in force and
\* leaves the window alone, and no other call adds an entity to the dataset.
C10_FrameStep ==
    /\ called'.op = "set_observation_period" =>
          /\ start_date' = called'.start_date
          /\ end_date' = called'.end_date
          /\ UNCHANGED <<dataset, names_table, company_table>>
    /\ called'.op = "build_sp500" =>
          /\ UNCHANGED <<start_date, end_date>>
          /\ dataset' # None
          /\ \A df \in dataset' :
                GvkeysOf(df) =
                    GvkeysOf(Resolve(DatasetRaw(idxcst_his), start_date, end_date))
    /\ called'.op # "build_sp500" =>
          /\ dataset = None => dataset' = None
          /\ \A old \in dataset : \A new \in dataset' :
                GvkeysOf(new) \subseteq GvkeysOf(old)
C10_SetObservationPeriodFrame == [][C10_FrameStep]_vars

\* C10 witness: after set_observation_period the connection still holds the
\* dataset built before it, with an entity that the window now set excludes.
C10_Witness ==
    /\ called.op = "set_observation_period"
    /\ dataset # None
    /\ \E g \in GvkeysOf(Result) :
          g \notin GvkeysOf(Resolve(DatasetRaw(idxcst_his), start_date, end_date))

====
